---- MODULE Spec2Model ----
(***************************************************************************)
(* Wildfire PM2.5 / solar-potential pipeline                               *)
(*   src/wildfire_pm25_processing.py   (fix_lon, process_scenario_data,    *)
(*                                      calculate_solar_potential_change,  *)
(*                                      main)                              *)
(*   src/wildfire_pm25_visualization.py (set_output_directory, regions)    *)
(*   src/run_visualization.py          (main, command-line entry)          *)
(*                                                                         *)
(* Cell values are exact rationals <<n, d>> (d > 0, lowest terms); the     *)
(* floating-point NaN is the pair <<0, 0>>.  A 2-D DataArray is a record   *)
(* [lat, lon, v] with v[i][j] the cell at lat[i], lon[j].                  *)
(***************************************************************************)
EXTENDS Integers, Sequences, FiniteSets, Bags, TLC

VARIABLES
    pc,              \* position of the run (or of the function call under study)
    files,           \* ./data: file name -> dataset
    dataDirExists,   \* whether ./data can be listed
    opened,          \* paths handed to xr.open_dataset, in order
    locals,          \* local variables of wildfire_pm25_processing.main
    processed_data,  \* the mapping main returns (empty until it returns)
    figures,         \* figure files written by savefig
    vizStep,         \* number of completed visualization calls
    regional_means,  \* the tables of calculate_regional_means, by variable
    regions_dict,    \* the module-level dict "regions" of the visualization
    raised,          \* the place where an exception was raised, or "none"
    mainResult,      \* how run_visualization.main ended
    traceback,       \* whether a traceback was printed
    exitStatus,      \* the process's exit status
    arg, ret         \* argument and result of a function-level call

vars == <<pc, files, dataDirExists, opened, locals, processed_data,
          figures, vizStep, regional_means, regions_dict, raised, mainResult,
          traceback, exitStatus, arg, ret>>

Null == "null"

EmptyMap == [n \in {} |-> Null]

(***************************************************************************)
(* Arithmetic on cell values                                               *)
(***************************************************************************)
Abs(n) == IF n < 0 THEN -n ELSE n

RECURSIVE GCD(_, _)
GCD(a, b) == IF b = 0 THEN a ELSE GCD(b, a % b)

NaN == <<0, 0>>

IsNaN(a) == a[2] = 0

Rat(n, d) ==
    IF d = 0 THEN NaN
    ELSE LET g == GCD(Abs(n), Abs(d))
             s == IF d < 0 THEN -1 ELSE 1
         IN  <<(s * n) \div g, (s * d) \div g>>

\* the sum and the difference are taken over the least common denominator
RAdd(a, b) ==
    IF IsNaN(a) \/ IsNaN(b) THEN NaN
    ELSE LET g == GCD(a[2], b[2])
         IN  Rat(a[1] * (b[2] \div g) + b[1] * (a[2] \div g), a[2] * (b[2] \div g))

RSub(a, b) ==
    IF IsNaN(a) \/ IsNaN(b) THEN NaN
    ELSE LET g == GCD(a[2], b[2])
         IN  Rat(a[1] * (b[2] \div g) - b[1] * (a[2] \div g), a[2] * (b[2] \div g))

RMul(a, b) ==
    IF IsNaN(a) \/ IsNaN(b) THEN NaN
    ELSE Rat(a[1] * b[1], a[2] * b[2])

RDiv(a, b) ==
    IF IsNaN(a) \/ IsNaN(b) THEN NaN
    ELSE Rat(a[1] * b[2], a[2] * b[1])

\* comparisons with NaN are false, as for IEEE floats
RLt(a, b) == ~IsNaN(a) /\ ~IsNaN(b) /\ a[1] * b[2] < b[1] * a[2]

RLe(a, b) == ~IsNaN(a) /\ ~IsNaN(b) /\ a[1] * b[2] <= b[1] * a[2]

(***************************************************************************)
(* DataArrays                                                              *)
(***************************************************************************)
Rows(da) == 1 .. Len(da.lat)

Cols(da) == 1 .. Len(da.lon)

Cells(da) == Rows(da) \X Cols(da)

Range(s) == {s[k] : k \in 1 .. Len(s)}

\* position of a coordinate label in a coordinate sequence
IndexOf(s, x) == CHOOSE k \in 1 .. Len(s) : s[k] = x

\* label-based cell lookup, da.sel(lat=la, lon=lo)
At(da, la, lo) == da.v[IndexOf(da.lat, la)][IndexOf(da.lon, lo)]

IsEmpty(da) == Len(da.lat) = 0 \/ Len(da.lon) = 0

(***************************************************************************)
(* calculate_solar_potential_change                                        *)
(***************************************************************************)
Coef == Rat(-48, 100)

RefPM25 == Rat(1771, 100)

Percent == Rat(100, 1)

Cap == Rat(-100, 1)

\* uncapped_change = -0.48 * pm25_data / 17.71 * 100, evaluated left to right
uncapped_change(p) == RMul(RDiv(RMul(Coef, p), RefPM25), Percent)

\* xr.where(uncapped_change < -100, -100, uncapped_change)
where_capped(u) == IF RLt(u, Cap) THEN Cap ELSE u

\* the PM2.5 value at which the uncapped change is exactly -100
Threshold == RDiv(RefPM25, Rat(48, 100))

\* mutant: the cap is forgotten
solar_uncapped(pm25_data) ==
    [pm25_data EXCEPT !.v =
        [i \in Rows(pm25_data) |-> [j \in Cols(pm25_data) |->
            uncapped_change(pm25_data.v[i][j])]]]

\* mutant: the result is clipped on both sides, to [-100, 0]
solar_clipped(pm25_data) ==
    [pm25_data EXCEPT !.v =
        [i \in Rows(pm25_data) |-> [j \in Cols(pm25_data) |->
            LET w == where_capped(uncapped_change(pm25_data.v[i][j]))
            IN  IF RLt(Rat(0, 1), w) THEN Rat(0, 1) ELSE w]]]

calculate_solar_potential_change(pm25_data) ==
    [pm25_data EXCEPT !.v =
        [i \in Rows(pm25_data) |-> [j \in Cols(pm25_data) |->
            where_capped(uncapped_change(pm25_data.v[i][j]))]]]

(***************************************************************************)
(* fix_lon                                                                 *)
(***************************************************************************)
\* xr.where(lon > 180, lon - 360, lon)
adjust_lon(v) == IF v > 180 THEN v - 360 ELSE v

longitude_adjusted(lon) == [j \in 1 .. Len(lon) |-> adjust_lon(lon[j])]

\* stable ascending argsort, as sortby does: order[k] is the input position
\* of the k-th smallest value, ties kept in input order
Rank(s, j) ==
    1 + Cardinality({i \in 1 .. Len(s) : s[i] < s[j] \/ (s[i] = s[j] /\ i < j)})

sortby(s) == [k \in 1 .. Len(s) |-> CHOOSE j \in 1 .. Len(s) : Rank(s, j) = k]

\* mutant: the coordinate is relabelled but the array is not sorted
fix_lon_unsorted(ds) ==
    [ds EXCEPT !.lon = longitude_adjusted(ds.lon)]

\* mutant: the coordinate is sorted but the cells stay where they were
fix_lon_coord_only(ds) ==
    LET adj   == longitude_adjusted(ds.lon)
        order == sortby(adj)
    IN  [ds EXCEPT !.lon = [k \in 1 .. Len(adj) |-> adj[order[k]]]]

\* mutant: the relabelled columns are rolled by one place, not sorted
fix_lon_rolled(ds) ==
    LET adj   == longitude_adjusted(ds.lon)
        order == [k \in 1 .. Len(adj) |-> (k % Len(adj)) + 1]
    IN  [lat |-> ds.lat,
         lon |-> [k \in 1 .. Len(adj) |-> adj[order[k]]],
         v   |-> [i \in Rows(ds) |-> [k \in 1 .. Len(adj) |-> ds.v[i][order[k]]]]]

fix_lon(ds) ==
    LET adj   == longitude_adjusted(ds.lon)
        order == sortby(adj)
    IN  [lat |-> ds.lat,
         lon |-> [k \in 1 .. Len(adj) |-> adj[order[k]]],
         v   |-> [i \in Rows(ds) |-> [k \in 1 .. Len(adj) |-> ds.v[i][order[k]]]]]

(***************************************************************************)
(* Scenario loading: process_scenario_data and the 2000 block of main      *)
(***************************************************************************)
ScenarioKeys == <<"2000", "2050_45", "2050_85", "2100_45", "2100_85">>

\* os.path.join(data_dir, ...) for the standard run of a scenario
baseline_path(key) ==
    CASE key = "2000"    -> "CESM_09x125_PM25_2000_Baseline.nc"
      [] key = "2050_45" -> "CESM_09x125_PM25_2050_RCP45.nc"
      [] key = "2050_85" -> "CESM_09x125_PM25_2050_RCP85.nc"
      [] key = "2100_45" -> "CESM_09x125_PM25_2100_RCP45.nc"
      [] key = "2100_85" -> "CESM_09x125_PM25_2100_RCP85.nc"

\* mutant: the no-fire run of 2050 under RCP4.5 is taken from RCP8.5
nofire_path_mixed(key) ==
    CASE key = "2000"    -> "CESM_09x125_PM25_2000_BaseLine_NoFire.nc"
      [] key = "2050_45" -> "CESM_09x125_PM25_2050_RCP85_NoFire.nc"
      [] key = "2050_85" -> "CESM_09x125_PM25_2050_RCP85_NoFire.nc"
      [] key = "2100_45" -> "CESM_09x125_PM25_2100_RCP45_NoFire.nc"
      [] key = "2100_85" -> "CESM_09x125_PM25_2100_RCP85_NoFire.nc"

\* os.path.join(data_dir, ...) for the no-fire run of a scenario
nofire_path(key) ==
    CASE key = "2000"    -> "CESM_09x125_PM25_2000_BaseLine_NoFire.nc"
      [] key = "2050_45" -> "CESM_09x125_PM25_2050_RCP45_NoFire.nc"
      [] key = "2050_85" -> "CESM_09x125_PM25_2050_RCP85_NoFire.nc"
      [] key = "2100_45" -> "CESM_09x125_PM25_2100_RCP45_NoFire.nc"
      [] key = "2100_85" -> "CESM_09x125_PM25_2100_RCP85_NoFire.nc"

FileNames ==
    {baseline_path(ScenarioKeys[k]) : k \in 1 .. Len(ScenarioKeys)}
        \cup {nofire_path(ScenarioKeys[k]) : k \in 1 .. Len(ScenarioKeys)}

\* names of the three fields a load binds in main
baseline_name(key) ==
    CASE key = "2000"    -> "baseline_pm25_2000"
      [] key = "2050_45" -> "baseline_pm25_2050_45"
      [] key = "2050_85" -> "baseline_pm25_2050_85"
      [] key = "2100_45" -> "baseline_pm25_2100_45"
      [] key = "2100_85" -> "baseline_pm25_2100_85"

nofire_name(key) ==
    CASE key = "2000"    -> "nofire_pm25_2000"
      [] key = "2050_45" -> "nofire_pm25_2050_45"
      [] key = "2050_85" -> "nofire_pm25_2050_85"
      [] key = "2100_45" -> "nofire_pm25_2100_45"
      [] key = "2100_85" -> "nofire_pm25_2100_85"

wildfire_name(key) ==
    CASE key = "2000"    -> "wildfire_pm25_2000"
      [] key = "2050_45" -> "wildfire_pm25_2050_45"
      [] key = "2050_85" -> "wildfire_pm25_2050_85"
      [] key = "2100_45" -> "wildfire_pm25_2100_45"
      [] key = "2100_85" -> "wildfire_pm25_2100_85"

solar_name(key) ==
    CASE key = "2000"    -> "solar_change_2000"
      [] key = "2050_45" -> "solar_change_2050_45"
      [] key = "2050_85" -> "solar_change_2050_85"
      [] key = "2100_45" -> "solar_change_2100_45"
      [] key = "2100_85" -> "solar_change_2100_85"

RECURSIVE SumFrames(_, _, _, _)
SumFrames(frames, i, j, t) ==
    IF t = 0 THEN Rat(0, 1)
    ELSE RAdd(SumFrames(frames, i, j, t - 1), frames[t][i][j])

\* pm25.mean(dim='time'): the arithmetic mean over the time axis; over an
\* empty axis the mean of no numbers is NaN (0/0), no exception is raised
time_mean(pm25) ==
    [lat |-> pm25.lat, lon |-> pm25.lon,
     v   |-> [i \in 1 .. Len(pm25.lat) |-> [j \in 1 .. Len(pm25.lon) |->
                 RDiv(SumFrames(pm25.frames, i, j, Len(pm25.frames)),
                      Rat(Len(pm25.frames), 1))]]]

\* "if 'time' in pm25.dims: pm25 = pm25.mean(dim='time')"
time_average_if_needed(pm25) ==
    IF pm25.has_time THEN time_mean(pm25)
    ELSE [lat |-> pm25.lat, lon |-> pm25.lon, v |-> pm25.frames[1]]

\* labels of a that also occur in b, in a's order (inner join of two indexes)
inner_join(a, b) == SelectSeq(a, LAMBDA x : x \in Range(b))

\* mutant: a difference below zero is reported as zero
subtract_nonnegative(a, b) ==
    LET lat == inner_join(a.lat, b.lat)
        lon == inner_join(a.lon, b.lon)
    IN  [lat |-> lat, lon |-> lon,
         v   |-> [i \in 1 .. Len(lat) |-> [j \in 1 .. Len(lon) |->
                     LET d == RSub(At(a, lat[i], lon[j]), At(b, lat[i], lon[j]))
                     IN  IF RLt(d, Rat(0, 1)) THEN Rat(0, 1) ELSE d]]]

\* mutant: operands swapped
subtract_swapped(a, b) ==
    LET lat == inner_join(a.lat, b.lat)
        lon == inner_join(a.lon, b.lon)
    IN  [lat |-> lat, lon |-> lon,
         v   |-> [i \in 1 .. Len(lat) |-> [j \in 1 .. Len(lon) |->
                     RSub(At(b, lat[i], lon[j]), At(a, lat[i], lon[j]))]]]

\* a - b on DataArrays: the operands are aligned on the coordinate labels
\* they share (xarray's default inner join), then subtracted cell by cell
subtract(a, b) ==
    LET lat == inner_join(a.lat, b.lat)
        lon == inner_join(a.lon, b.lon)
    IN  [lat |-> lat, lon |-> lon,
         v   |-> [i \in 1 .. Len(lat) |-> [j \in 1 .. Len(lon) |->
                     RSub(At(a, lat[i], lon[j]), At(b, lat[i], lon[j]))]]]

\* .min() / .max() of an array with no cells raises ValueError
stats_raise(da) == IsEmpty(da)

NoField == [lat |-> <<>>, lon |-> <<>>, v |-> <<>>]

Failed(paths) ==
    [raised |-> TRUE, opened |-> paths,
     wildfire |-> NoField, baseline |-> NoField, nofire |-> NoField]

\* mutant: the standard file is opened a second time for its statistics
load_pair_reopen(fs, b_path, n_path) ==
    IF ~fs[b_path].exists THEN Failed(<<b_path>>)
    ELSE IF ~fs[n_path].exists THEN Failed(<<b_path, n_path>>)
    ELSE IF ~fs[b_path].has_pm25 \/ ~fs[n_path].has_pm25
         THEN Failed(<<b_path, n_path>>)
    ELSE LET baseline_pm25 == fix_lon(time_average_if_needed(fs[b_path]))
             nofire_pm25   == fix_lon(time_average_if_needed(fs[n_path]))
             wildfire_pm25 == subtract(baseline_pm25, nofire_pm25)
         IN  [raised   |-> stats_raise(wildfire_pm25),
              opened   |-> <<b_path, n_path, b_path>>,
              wildfire |-> wildfire_pm25,
              baseline |-> baseline_pm25,
              nofire   |-> nofire_pm25]

\* the body shared by process_scenario_data and the 2000 block of main:
\* open both files, take 'pm25' of each, average over time, fix_lon,
\* subtract, print the statistics
load_pair(fs, b_path, n_path) ==
    IF ~fs[b_path].exists THEN Failed(<<b_path>>)
    ELSE IF ~fs[n_path].exists THEN Failed(<<b_path, n_path>>)
    ELSE IF ~fs[b_path].has_pm25 \/ ~fs[n_path].has_pm25
         THEN Failed(<<b_path, n_path>>)
    ELSE LET baseline_pm25 == fix_lon(time_average_if_needed(fs[b_path]))
             nofire_pm25   == fix_lon(time_average_if_needed(fs[n_path]))
             wildfire_pm25 == subtract(baseline_pm25, nofire_pm25)
         IN  [raised   |-> stats_raise(wildfire_pm25),
              opened   |-> <<b_path, n_path>>,
              wildfire |-> wildfire_pm25,
              baseline |-> baseline_pm25,
              nofire   |-> nofire_pm25]

\* mutant: a failed load is skipped and the run goes on without the scenario
process_scenario_data_skip(fs, key) ==
    [load_pair(fs, baseline_path(key), nofire_path(key)) EXCEPT !.raised = FALSE]

process_scenario_data(fs, key) == load_pair(fs, baseline_path(key), nofire_path(key))

(***************************************************************************)
(* The six temporal pairings                                               *)
(***************************************************************************)
\* <<name suffix, later scenario, earlier scenario>>
Pairings ==
    << <<"2000_to_2050_45", "2050_45", "2000">>,
       <<"2000_to_2050_85", "2050_85", "2000">>,
       <<"2050_to_2100_45", "2100_45", "2050_45">>,
       <<"2050_to_2100_85", "2100_85", "2050_85">>,
       <<"2000_to_2100_45", "2100_45", "2000">>,
       <<"2000_to_2100_85", "2100_85", "2000">> >>

change_name(p) ==
    CASE p = 1 -> "change_2000_to_2050_45"
      [] p = 2 -> "change_2000_to_2050_85"
      [] p = 3 -> "change_2050_to_2100_45"
      [] p = 4 -> "change_2050_to_2100_85"
      [] p = 5 -> "change_2000_to_2100_45"
      [] p = 6 -> "change_2000_to_2100_85"

solar_diff_name(p) ==
    CASE p = 1 -> "solar_diff_2000_to_2050_45"
      [] p = 2 -> "solar_diff_2000_to_2050_85"
      [] p = 3 -> "solar_diff_2050_to_2100_45"
      [] p = 4 -> "solar_diff_2050_to_2100_85"
      [] p = 5 -> "solar_diff_2000_to_2100_45"
      [] p = 6 -> "solar_diff_2000_to_2100_85"

PairIds == 1 .. Len(Pairings)

KeyIds == 1 .. Len(ScenarioKeys)

\* mutant: the 2050 to 2100 change of RCP4.5 starts from the RCP8.5 field
changes_mixed(l) ==
    [n \in {change_name(p) : p \in PairIds} |->
        LET p == CHOOSE q \in PairIds : change_name(q) = n
        IN  subtract(l[wildfire_name(Pairings[p][2])],
                     l[wildfire_name(IF p = 3 THEN "2050_85" ELSE Pairings[p][3])])]

\* change_X = wildfire_pm25_later - wildfire_pm25_earlier, six times
changes(l) ==
    [n \in {change_name(p) : p \in PairIds} |->
        LET p == CHOOSE q \in PairIds : change_name(q) = n
        IN  subtract(l[wildfire_name(Pairings[p][2])],
                     l[wildfire_name(Pairings[p][3])])]

\* solar_change_K = calculate_solar_potential_change(wildfire_pm25_K)
solar_changes(l) ==
    [n \in {solar_name(ScenarioKeys[k]) : k \in KeyIds} |->
        LET k == CHOOSE q \in KeyIds : solar_name(ScenarioKeys[q]) = n
        IN  calculate_solar_potential_change(l[wildfire_name(ScenarioKeys[k])])]

\* mutant: the solar differences are taken earlier minus later
solar_diffs_reversed(l) ==
    [n \in {solar_diff_name(p) : p \in PairIds} |->
        LET p == CHOOSE q \in PairIds : solar_diff_name(q) = n
        IN  subtract(l[solar_name(Pairings[p][3])],
                     l[solar_name(Pairings[p][2])])]

\* solar_diff_X = solar_change_later - solar_change_earlier, six times
solar_diffs(l) ==
    [n \in {solar_diff_name(p) : p \in PairIds} |->
        LET p == CHOOSE q \in PairIds : solar_diff_name(q) = n
        IN  subtract(l[solar_name(Pairings[p][2])],
                     l[solar_name(Pairings[p][3])])]

\* mutant: the mapping leaves out baseline_pm25_2000
ReturnedKeys_short ==
    ({baseline_name(ScenarioKeys[k]) : k \in KeyIds} \ {"baseline_pm25_2000"})
        \cup {nofire_name(ScenarioKeys[k]) : k \in KeyIds}
        \cup {wildfire_name(ScenarioKeys[k]) : k \in KeyIds}
        \cup {change_name(p) : p \in PairIds}
        \cup {solar_name(ScenarioKeys[k]) : k \in KeyIds}
        \cup {solar_diff_name(p) : p \in PairIds}

\* the keys of the mapping main returns
ReturnedKeys ==
    {baseline_name(ScenarioKeys[k]) : k \in KeyIds}
        \cup {nofire_name(ScenarioKeys[k]) : k \in KeyIds}
        \cup {wildfire_name(ScenarioKeys[k]) : k \in KeyIds}
        \cup {change_name(p) : p \in PairIds}
        \cup {solar_name(ScenarioKeys[k]) : k \in KeyIds}
        \cup {solar_diff_name(p) : p \in PairIds}

\* the keys run_visualization.main reads from the mapping
ExtractedKeys ==
    {wildfire_name(ScenarioKeys[k]) : k \in KeyIds}
        \cup {change_name(p) : p \in PairIds}
        \cup {solar_name(ScenarioKeys[k]) : k \in KeyIds}
        \cup {solar_diff_name(p) : p \in PairIds}

(***************************************************************************)
(* calculate_regional_means                                                *)
(***************************************************************************)
regions ==
    << [name |-> "North America", lat_min |-> 15, lat_max |-> 70,
        lon_min |-> -170, lon_max |-> -50],
       [name |-> "South America", lat_min |-> -55, lat_max |-> 15,
        lon_min |-> -80, lon_max |-> -35],
       [name |-> "Europe", lat_min |-> 35, lat_max |-> 70,
        lon_min |-> -10, lon_max |-> 40],
       [name |-> "Africa", lat_min |-> -35, lat_max |-> 35,
        lon_min |-> -20, lon_max |-> 55],
       [name |-> "Asia", lat_min |-> 0, lat_max |-> 55,
        lon_min |-> 60, lon_max |-> 150],
       [name |-> "Australia", lat_min |-> -45, lat_max |-> -10,
        lon_min |-> 110, lon_max |-> 155] >>

RegionNames == {regions[r].name : r \in 1 .. Len(regions)}

RegionNamed(name) == regions[CHOOSE r \in 1 .. Len(regions) : regions[r].name = name]

\* np.cos(np.deg2rad(lat)) to two decimals, for latitudes that are multiples
\* of ten degrees
cos_deg(lat) ==
    CASE Abs(lat) = 0  -> Rat(100, 100)
      [] Abs(lat) = 10 -> Rat(98, 100)
      [] Abs(lat) = 20 -> Rat(94, 100)
      [] Abs(lat) = 30 -> Rat(87, 100)
      [] Abs(lat) = 40 -> Rat(77, 100)
      [] Abs(lat) = 50 -> Rat(64, 100)
      [] Abs(lat) = 60 -> Rat(50, 100)
      [] Abs(lat) = 70 -> Rat(34, 100)
      [] Abs(lat) = 80 -> Rat(17, 100)

IsAscending(coord) == \A k \in 1 .. (Len(coord) - 1) : coord[k] <= coord[k + 1]

\* the positions .sel(dim=slice(lo, hi)) selects on a monotonic coordinate:
\* on an ascending one the labels within [lo, hi]; on a descending one the
\* positions from the first label <= lo to the last label >= hi, which is
\* an empty range when lo < hi
slice_positions(coord, lo, hi) ==
    IF IsAscending(coord)
    THEN {k \in 1 .. Len(coord) : lo <= coord[k] /\ coord[k] <= hi}
    ELSE (Cardinality({k \in 1 .. Len(coord) : coord[k] > lo}) + 1)
             .. Cardinality({k \in 1 .. Len(coord) : coord[k] >= hi})

\* the positions of a set, in increasing order
Ordered(len, positions) ==
    SelectSeq([k \in 1 .. len |-> k], LAMBDA k : k \in positions)

\* data.sel(lat=slice(lat_min, lat_max), lon=slice(lon_min, lon_max))
sel(data, bounds) ==
    LET rows == Ordered(Len(data.lat),
                        slice_positions(data.lat, bounds.lat_min, bounds.lat_max))
        cols == Ordered(Len(data.lon),
                        slice_positions(data.lon, bounds.lon_min, bounds.lon_max))
    IN  [lat |-> [i \in 1 .. Len(rows) |-> data.lat[rows[i]]],
         lon |-> [j \in 1 .. Len(cols) |-> data.lon[cols[j]]],
         v   |-> [i \in 1 .. Len(rows) |-> [j \in 1 .. Len(cols) |->
                     data.v[rows[i]][cols[j]]]]]

\* the cells of a DataArray, row by row
Flat(da) ==
    [n \in 1 .. (Len(da.lat) * Len(da.lon)) |->
        da.v[((n - 1) \div Len(da.lon)) + 1][((n - 1) % Len(da.lon)) + 1]]

RECURSIVE SumTerms(_, _)
SumTerms(terms, n) ==
    IF n = 0 THEN Rat(0, 1) ELSE RAdd(SumTerms(terms, n - 1), terms[n])

\* .sum(dim=['lat', 'lon']): cells that are not numbers are skipped
sum_skipna(da) ==
    LET terms == [n \in 1 .. (Len(da.lat) * Len(da.lon)) |->
                     IF IsNaN(Flat(da)[n]) THEN Rat(0, 1) ELSE Flat(da)[n]]
    IN  SumTerms(terms, Len(terms))

\* the body of the inner loop: select the window, weight each row by the
\* cosine of its latitude, divide the weighted sum by the sum of the weights
weighted_mean(data, bounds) ==
    LET region_data    == sel(data, bounds)
        weights        == [i \in Rows(region_data) |-> cos_deg(region_data.lat[i])]
        weight_factors == [region_data EXCEPT !.v =
                              [i \in Rows(region_data) |-> [j \in Cols(region_data) |->
                                  weights[i]]]]
        product        == [region_data EXCEPT !.v =
                              [i \in Rows(region_data) |-> [j \in Cols(region_data) |->
                                  RMul(region_data.v[i][j], weight_factors.v[i][j])]]]
        weighted_sum   == sum_skipna(product)
        sum_of_weights == sum_skipna(weight_factors)
    IN  RDiv(weighted_sum, sum_of_weights)

\* the table: one column per region, one row per dataset of data_dict
calculate_regional_means(data_dict) ==
    [region_name \in {regions_dict[r].name : r \in 1 .. Len(regions_dict)} |->
        [data_name \in DOMAIN data_dict |->
            weighted_mean(data_dict[data_name],
                          regions_dict[CHOOSE r \in 1 .. Len(regions_dict) :
                                           regions_dict[r].name = region_name])]]

\* mutant: the function consumes the dict it iterates over (popitem)
regions_popped(regs, data_dict) == SubSeq(regs, 1, Len(regs) - 1)

\* the module-level dict after a call: the loop only reads regions.items()
regions_after_call(regs, data_dict) == regs

(***************************************************************************)
(* The calls of run_visualization.main after the data is extracted         *)
(***************************************************************************)
VizCalls ==
    << [fn |-> "create_pm25_map", file |-> "wildfire_pm25_2000.png"],
       [fn |-> "create_pm25_map", file |-> "wildfire_pm25_2050_rcp45.png"],
       [fn |-> "create_pm25_map", file |-> "wildfire_pm25_2050_rcp85.png"],
       [fn |-> "create_pm25_map", file |-> "wildfire_pm25_2100_rcp45.png"],
       [fn |-> "create_pm25_map", file |-> "wildfire_pm25_2100_rcp85.png"],
       [fn |-> "create_scenario_comparison_map",
        file |-> "wildfire_pm25_scenario_comparison.png"],
       [fn |-> "create_scenario_comparison_map", file |-> "wildfire_pm25_changes.png"],
       [fn |-> "create_solar_potential_map", file |-> "solar_potential_loss_2000.png"],
       [fn |-> "create_solar_potential_map",
        file |-> "solar_potential_loss_2050_rcp45.png"],
       [fn |-> "create_solar_potential_map",
        file |-> "solar_potential_loss_2050_rcp85.png"],
       [fn |-> "create_solar_potential_map",
        file |-> "solar_potential_loss_2100_rcp45.png"],
       [fn |-> "create_solar_potential_map",
        file |-> "solar_potential_loss_2100_rcp85.png"],
       [fn |-> "create_scenario_comparison_map",
        file |-> "solar_potential_loss_scenario_comparison.png"],
       [fn |-> "create_scenario_comparison_map",
        file |-> "solar_potential_loss_changes.png"],
       [fn |-> "calculate_regional_means", file |-> "",
        data |-> "pm25_scenario_dict", result |-> "pm25_regional_means"],
       [fn |-> "create_regional_bar_chart", file |-> "regional_wildfire_pm25.png"],
       [fn |-> "calculate_regional_means", file |-> "",
        data |-> "solar_scenario_dict", result |-> "solar_regional_means"],
       [fn |-> "create_regional_bar_chart",
        file |-> "regional_solar_potential_loss.png"],
       [fn |-> "calculate_regional_means", file |-> "",
        data |-> "solar_changes_dict", result |-> "solar_changes_regional_means"],
       [fn |-> "create_regional_bar_chart",
        file |-> "regional_solar_potential_loss_changes.png"] >>

(***************************************************************************)
(* The contents of ./data                                                  *)
(***************************************************************************)
MaxTime == 2

MaxGrowth == 1

BaseLat == <<10, 40>>

BaseLon == <<0, 190>>

\* PM2.5 of the standard and of the no-fire run of the 2000 scenario; their
\* difference has a small positive, a negative, a cap-point and a capped cell
BaselineTable ==
    << <<Rat(10, 1), Rat(4, 1)>>, <<RAdd(Threshold, Rat(4, 1)), Rat(50, 1)>> >>

NoFireTable ==
    << <<Rat(4, 1), Rat(10, 1)>>, <<Rat(4, 1), Rat(4, 1)>> >>

\* how much smoke each scenario adds to the standard run, per unit of growth
ScenarioOffset == <<0, 1, 3, 2, 40>>

TableCell(table, i, j) == table[((i - 1) % 2) + 1][((j - 1) % 2) + 1]

\* a dataset whose frame t holds table + extra + (t - 1) in every cell
Dataset(lat, lon, table, extra, has_time, n) ==
    [exists   |-> TRUE,
     has_pm25 |-> TRUE,
     has_time |-> has_time,
     lat      |-> lat,
     lon      |-> lon,
     frames   |-> [t \in 1 .. n |-> [i \in 1 .. Len(lat) |-> [j \in 1 .. Len(lon) |->
                     RAdd(TableCell(table, i, j), Rat(extra + t - 1, 1))]]]]

TimeLayouts ==
    {[has_time |-> FALSE, n |-> 1]} \cup {[has_time |-> TRUE, n |-> t] : t \in 1 .. MaxTime}

DefectKinds ==
    {"missing", "no_pm25", "empty_time", "extra_lat", "shifted_lon", "disjoint_lat"}

Defects == {[file |-> f, kind |-> d] : f \in FileNames, d \in DefectKinds}

Defective(ds, kind) ==
    CASE kind = "missing"      -> [ds EXCEPT !.exists = FALSE]
      [] kind = "no_pm25"      -> [ds EXCEPT !.has_pm25 = FALSE]
      [] kind = "empty_time"   -> [ds EXCEPT !.has_time = TRUE, !.frames = <<>>]
      [] kind = "extra_lat"    ->
            Dataset(<<10, 40, 70>>, ds.lon, NoFireTable, 1, ds.has_time, Len(ds.frames))
      [] kind = "shifted_lon"  ->
            Dataset(ds.lat, <<0, 200>>, NoFireTable, 1, ds.has_time, Len(ds.frames))
      [] kind = "disjoint_lat" ->
            Dataset(<<-40, -10>>, ds.lon, NoFireTable, 1, ds.has_time, Len(ds.frames))

Environment(growth, tb, tn, defect) ==
    [f \in FileNames |->
        LET isBase == \E k \in KeyIds : f = baseline_path(ScenarioKeys[k])
            k      == CHOOSE q \in KeyIds :
                          f \in {baseline_path(ScenarioKeys[q]), nofire_path(ScenarioKeys[q])}
            ds     == IF isBase
                      THEN Dataset(BaseLat, BaseLon, BaselineTable,
                                   growth * ScenarioOffset[k], tb.has_time, tb.n)
                      ELSE Dataset(BaseLat, BaseLon, NoFireTable, 0, tn.has_time, tn.n)
        IN  IF defect.file = f THEN Defective(ds, defect.kind) ELSE ds]

\* no ./data directory: none of the files exists
NoData ==
    [f \in FileNames |->
        [exists |-> FALSE, has_pm25 |-> FALSE, has_time |-> FALSE,
         lat |-> <<>>, lon |-> <<>>, frames |-> <<>>]]

NoDefect == [file |-> "", kind |-> "none"]

\* every growth and every pair of time layouts without a defect, and every
\* single defect under each time layout shared by the two runs
Environments ==
    {Environment(g, tb, tn, NoDefect) :
        g \in 0 .. MaxGrowth, tb \in TimeLayouts, tn \in TimeLayouts}
    \cup {Environment(MaxGrowth, t, t, d) : t \in TimeLayouts, d \in Defects}

\* a uniform grid with a cell in each of the six regions, latitudes ascending
\* and descending
UniformLats == {<<-20, 10, 40>>, <<40, 10, -20>>}

UniformLon == <<0, 60, 120, 180, 240, 300>>

ConstantTable(c) == << <<Rat(c, 1), Rat(c, 1)>>, <<Rat(c, 1), Rat(c, 1)>> >>

\* every standard run is 10 everywhere and every no-fire run 4 everywhere
ConstantEnvironments ==
    {[f \in FileNames |->
        IF \E k \in KeyIds : f = baseline_path(ScenarioKeys[k])
        THEN Dataset(lat, UniformLon, ConstantTable(10), 0, t.has_time, 1)
        ELSE Dataset(lat, UniformLon, ConstantTable(4), 0, t.has_time, 1)] :
        lat \in UniformLats, t \in {l \in TimeLayouts : l.n = 1}}

(***************************************************************************)
(* Inputs of the function-level specifications                             *)
(***************************************************************************)
PM25Levels ==
    {NaN, Rat(-6, 1), Rat(0, 1), Rat(6, 1),
     RSub(Threshold, Rat(1, 48)), Threshold, RAdd(Threshold, Rat(1, 48)),
     Rat(46, 1), Rat(4000, 1)}

SolarInputs ==
    {[lat |-> <<10>>, lon |-> <<0, 90>>, v |-> <<<<a, b>>>>] :
        a \in PM25Levels, b \in PM25Levels}

MaxLon == 3

LonValues == {-170, -90, 0, 90, 180, 181, 270, 359}

LatChoices == {<<10>>, <<40, 10>>}

\* a longitude coordinate names each meridian once
DistinctMeridians(lon) ==
    \A i, j \in 1 .. Len(lon) : i # j => adjust_lon(lon[i]) # adjust_lon(lon[j])

LonSeqs ==
    {s \in UNION {[1 .. n -> LonValues] : n \in 1 .. MaxLon} : DistinctMeridians(s)}

\* cell (i, j) holds the value 100*i + j, so every cell is recognisable
LonInputs ==
    {[lat |-> la, lon |-> lo,
      v |-> [i \in 1 .. Len(la) |-> [j \in 1 .. Len(lo) |-> Rat(100 * i + j, 1)]]] :
        la \in LatChoices, lo \in LonSeqs}

\* latitude coordinates: one row, ascending and descending ones, and one
\* wholly in the southern hemisphere
RegionalLats ==
    {<<40>>, <<10, 40>>, <<40, 10>>, <<-20, 10, 40>>, <<40, 10, -20>>, <<-40, -10>>}

\* longitude coordinates as fix_lon leaves them
RegionalLons == {<<0>>, <<-120, 0, 120>>, <<-170, -50, 150>>}

\* what a field holds in cell (i, j): one value everywhere, or a value of its
\* own in every cell, or that with one cell that is not a number
RegionalFills == {"minus", "zero", "six", "cells", "gap"}

RegionalField(lat, lon, fill) ==
    [lat |-> lat, lon |-> lon,
     v   |-> [i \in 1 .. Len(lat) |-> [j \in 1 .. Len(lon) |->
                 CASE fill = "minus" -> Rat(-28800, 1771)
                   [] fill = "zero"  -> Rat(0, 1)
                   [] fill = "six"   -> Rat(6, 1)
                   [] fill = "cells" -> Rat(10 * i + j, 1)
                   [] fill = "gap"   -> IF i = 1 /\ j = 1 THEN NaN
                                        ELSE Rat(10 * i + j, 1)]]]

\* data_dict of one dataset, and of two datasets on one grid
RegionalInputs ==
    {("2000 Baseline" :> RegionalField(la, lo, f)) :
        la \in RegionalLats, lo \in RegionalLons, f \in RegionalFills}
    \cup {("2000 Baseline" :> RegionalField(la, lo, f))
              @@ ("2050 RCP 4.5" :> RegionalField(la, lo, "six")) :
        la \in RegionalLats, lo \in RegionalLons, f \in RegionalFills}

AttributionLevels == {NaN, Rat(-6, 1), Rat(0, 1), Rat(4, 1), Rat(10, 1)}

\* two-cell fields, one row or one column
AttributionFields ==
    {[lat |-> <<10>>, lon |-> <<0, 90>>, v |-> <<<<x, y>>>>] :
        x \in AttributionLevels, y \in AttributionLevels}
    \cup {[lat |-> <<40, 10>>, lon |-> <<0>>, v |-> <<<<x>>, <<y>>>>] :
        x \in AttributionLevels, y \in AttributionLevels}

\* a standard and a no-fire field on one grid
AttributionInputs ==
    {p \in [a : AttributionFields, b : AttributionFields] :
        p.a.lat = p.b.lat /\ p.a.lon = p.b.lon}

\* the mappings of a second and of any later call: one, two and three
\* datasets
FollowingInputs ==
    {("2000 Baseline" :> RegionalField(<<-20, 10, 40>>, <<-120, 0, 120>>, "cells")),
     ("2000 Baseline" :> RegionalField(<<10, 40>>, <<0>>, "six"))
         @@ ("2050 RCP 4.5" :> RegionalField(<<10, 40>>, <<0>>, "cells")),
     ("2000 Baseline" :> RegionalField(<<40, 10>>, <<-170, -50, 150>>, "zero"))
         @@ ("2050 RCP 4.5" :> RegionalField(<<40, 10>>, <<-170, -50, 150>>, "six"))
         @@ ("2050 RCP 8.5" :> RegionalField(<<40, 10>>, <<-170, -50, 150>>, "gap"))}

NotStarted ==
    /\ opened = <<>>
    /\ locals = EmptyMap
    /\ processed_data = EmptyMap
    /\ figures = {}
    /\ vizStep = 0
    /\ regional_means = EmptyMap
    /\ regions_dict = regions
    /\ raised = "none"
    /\ mainResult = [state |-> "not_called", value |-> 0]
    /\ traceback = FALSE
    /\ exitStatus = [exited |-> FALSE, code |-> 0]

NoRun ==
    /\ files = EmptyMap
    /\ dataDirExists = TRUE
    /\ NotStarted

\* the state of a run, but for the module-level dict
runState == <<files, dataDirExists, opened, locals, processed_data,
              figures, vizStep, regional_means, raised, mainResult, traceback,
              exitStatus>>

runVars == <<files, dataDirExists, opened, locals, processed_data,
             figures, vizStep, regional_means, regions_dict, raised, mainResult, traceback, exitStatus>>

(***************************************************************************)
(* SpecSolar: calculate_solar_potential_change on every input field        *)
(***************************************************************************)
InitSolar ==
    /\ pc = "call_solar"
    /\ arg \in SolarInputs
    /\ ret = Null
    /\ NoRun

CallSolar ==
    /\ pc = "call_solar"
    /\ ret' = calculate_solar_potential_change(arg)
    /\ pc' = "ret_solar"
    /\ UNCHANGED <<arg, runVars>>

NextSolar == CallSolar

SpecSolar == InitSolar /\ [][NextSolar]_vars

(***************************************************************************)
(* SpecLon: fix_lon on every input grid                                    *)
(***************************************************************************)
InitLon ==
    /\ pc = "call_fix_lon"
    /\ arg \in LonInputs
    /\ ret = Null
    /\ NoRun

CallFixLon ==
    /\ pc = "call_fix_lon"
    /\ ret' = fix_lon(arg)
    /\ pc' = "ret_fix_lon"
    /\ UNCHANGED <<arg, runVars>>

\* fix_lon applied to a grid fix_lon returned
CallFixLonAgain ==
    /\ pc = "ret_fix_lon"
    /\ ret' = fix_lon(ret)
    /\ pc' = "ret_fix_lon_again"
    /\ UNCHANGED <<arg, runVars>>

NextLon == CallFixLon \/ CallFixLonAgain

SpecLon == InitLon /\ [][NextLon]_vars

(***************************************************************************)
(* SpecRegions: calculate_regional_means on every input mapping            *)
(***************************************************************************)
InitRegions ==
    /\ pc = "call_regional_means"
    /\ arg \in RegionalInputs
    /\ ret = Null
    /\ NoRun

\* one call; its argument is left as it was (sel, ones_like and the
\* arithmetic build new arrays)
CallRegionalMeans ==
    /\ pc = "call_regional_means"
    /\ ret' = calculate_regional_means(arg)
    /\ regions_dict' = regions_after_call(regions_dict, arg)
    /\ pc' = "ret_regional_means"
    /\ UNCHANGED <<arg, runState>>

\* the caller goes on to its next mapping, still holding the last table
NextMapping ==
    /\ pc = "ret_regional_means"
    /\ arg' \in FollowingInputs
    /\ pc' = "call_regional_means"
    /\ UNCHANGED <<ret, runVars>>

NextRegions == CallRegionalMeans \/ NextMapping

SpecRegions == InitRegions /\ [][NextRegions]_vars

(***************************************************************************)
(* SpecAttribution: "baseline_pm25 - nofire_pm25" with the operands in     *)
(* either order                                                            *)
(***************************************************************************)
InitAttribution ==
    /\ pc = "call_attribution"
    /\ arg \in AttributionInputs
    /\ ret = Null
    /\ NoRun

CallAttribution ==
    /\ pc = "call_attribution"
    /\ ret' = [ab |-> subtract(arg.a, arg.b), ba |-> subtract(arg.b, arg.a)]
    /\ pc' = "ret_attribution"
    /\ UNCHANGED <<arg, runVars>>

NextAttribution == CallAttribution

SpecAttribution == InitAttribution /\ [][NextAttribution]_vars

(***************************************************************************)
(* Spec: one run of "python run_visualization.py [output_dir]"             *)
(***************************************************************************)
Init ==
    /\ pc = "start"
    /\ \/ dataDirExists = TRUE /\ files \in Environments \cup ConstantEnvironments
       \/ dataDirExists = FALSE /\ files = NoData
    /\ NotStarted
    /\ arg = Null
    /\ ret = Null

\* an exception raised inside the try block of run_visualization.main
RaiseInTry(where) ==
    /\ pc' = "except"
    /\ raised' = where

LoadPc(k) ==
    CASE k = 1 -> "load_2000"
      [] k = 2 -> "load_2050_45"
      [] k = 3 -> "load_2050_85"
      [] k = 4 -> "load_2100_45"
      [] k = 5 -> "load_2100_85"

\* mutant: the two 2050 scenarios are loaded in the other order
AfterLoad_reordered(k) ==
    CASE k = 1 -> LoadPc(3)
      [] k = 3 -> LoadPc(2)
      [] k = 2 -> LoadPc(4)
      [] k = 4 -> LoadPc(5)
      [] k = 5 -> "changes"

AfterLoad(k) == IF k < Len(ScenarioKeys) THEN LoadPc(k + 1) ELSE "changes"

\* "import wildfire_pm25_processing as wpp" runs os.listdir(data_dir) at
\* module level; if ./data is absent the exception ends the process
ImportModules ==
    /\ pc = "start"
    /\ IF dataDirExists
       THEN pc' = "cli" /\ UNCHANGED raised
       ELSE pc' = "uncaught" /\ raised' = "import"
    /\ UNCHANGED <<regions_dict, regional_means, files, dataDirExists, opened, locals, processed_data, figures,
                   vizStep, mainResult, traceback, exitStatus, arg, ret>>

\* main(out_dir) up to the try block: viz.set_output_directory(out_dir),
\* whose os.makedirs may fail
SetOutputDirectory ==
    /\ pc = "cli"
    /\ \E ok \in BOOLEAN :
        IF ok
        THEN /\ pc' = "load_2000"
             /\ mainResult' = [state |-> "running", value |-> 0]
             /\ UNCHANGED raised
        ELSE /\ pc' = "uncaught"
             /\ mainResult' = [state |-> "raised", value |-> 0]
             /\ raised' = "set_output_directory"
    /\ UNCHANGED <<regions_dict, regional_means, files, dataDirExists, opened, locals, processed_data, figures,
                   vizStep, traceback, exitStatus, arg, ret>>

\* wpp.main: the 2000 block, then process_scenario_data for the four others
LoadScenario(k) ==
    /\ pc = LoadPc(k)
    /\ LET key == ScenarioKeys[k]
           r   == IF k = 1
                  THEN load_pair(files, baseline_path(key), nofire_path(key))
                  ELSE process_scenario_data(files, key)
       IN  /\ opened' = opened \o r.opened
           /\ IF r.raised
              THEN RaiseInTry(LoadPc(k)) /\ UNCHANGED locals
              ELSE /\ locals' = (wildfire_name(key) :> r.wildfire)
                                   @@ (baseline_name(key) :> r.baseline)
                                   @@ (nofire_name(key) :> r.nofire)
                                   @@ locals
                   /\ pc' = AfterLoad(k)
                   /\ UNCHANGED raised
    /\ UNCHANGED <<regions_dict, regional_means, files, dataDirExists, processed_data, figures, vizStep,
                   mainResult, traceback, exitStatus, arg, ret>>

WildfireNames == {wildfire_name(ScenarioKeys[k]) : k \in KeyIds}

SolarNames == {solar_name(ScenarioKeys[k]) : k \in KeyIds}

\* whether a block of wpp.main raises: a name it reads is unbound, or one of
\* the fields whose statistics it prints has no cells
block_raises(l, needs, new) ==
    \/ ~(needs \subseteq DOMAIN l)
    \/ \E n \in DOMAIN new : stats_raise(new[n])

\* "Calculating Temporal Changes in Wildfire PM2.5": six differences and
\* their statistics
ComputeChanges ==
    /\ pc = "changes"
    /\ LET new == IF WildfireNames \subseteq DOMAIN locals
                  THEN changes(locals) ELSE EmptyMap
       IN  IF block_raises(locals, WildfireNames, new)
           THEN RaiseInTry("changes") /\ UNCHANGED locals
           ELSE /\ locals' = new @@ locals
                /\ pc' = "solar"
                /\ UNCHANGED raised
    /\ UNCHANGED <<regions_dict, regional_means, files, dataDirExists, opened, processed_data, figures, vizStep,
                   mainResult, traceback, exitStatus, arg, ret>>

\* "Calculating Solar Power Potential Changes": five fields and their
\* statistics
ComputeSolar ==
    /\ pc = "solar"
    /\ LET new == IF WildfireNames \subseteq DOMAIN locals
                  THEN solar_changes(locals) ELSE EmptyMap
       IN  IF block_raises(locals, WildfireNames, new)
           THEN RaiseInTry("solar") /\ UNCHANGED locals
           ELSE /\ locals' = new @@ locals
                /\ pc' = "solar_diff"
                /\ UNCHANGED raised
    /\ UNCHANGED <<regions_dict, regional_means, files, dataDirExists, opened, processed_data, figures, vizStep,
                   mainResult, traceback, exitStatus, arg, ret>>

\* "Calculating Changes in Solar Power Potential Over Time": six differences
\* and their statistics
ComputeSolarDiffs ==
    /\ pc = "solar_diff"
    /\ LET new == IF SolarNames \subseteq DOMAIN locals
                  THEN solar_diffs(locals) ELSE EmptyMap
       IN  IF block_raises(locals, SolarNames, new)
           THEN RaiseInTry("solar_diff") /\ UNCHANGED locals
           ELSE /\ locals' = new @@ locals
                /\ pc' = "return"
                /\ UNCHANGED raised
    /\ UNCHANGED <<regions_dict, regional_means, files, dataDirExists, opened, processed_data, figures, vizStep,
                   mainResult, traceback, exitStatus, arg, ret>>

\* "return { ... }" of wpp.main: the mapping of every named field
ReturnMapping ==
    /\ pc = "return"
    /\ IF ReturnedKeys \subseteq DOMAIN locals
       THEN /\ processed_data' = [n \in ReturnedKeys |-> locals[n]]
            /\ pc' = "extract"
            /\ UNCHANGED raised
       ELSE RaiseInTry("return") /\ UNCHANGED processed_data
    /\ locals' = EmptyMap
    /\ UNCHANGED <<regions_dict, regional_means, files, dataDirExists, opened, figures, vizStep, mainResult,
                   traceback, exitStatus, arg, ret>>

\* run_visualization.main reads the fields it draws from the mapping
ExtractDatasets ==
    /\ pc = "extract"
    /\ IF ExtractedKeys \subseteq DOMAIN processed_data
       THEN pc' = "viz" /\ UNCHANGED raised
       ELSE RaiseInTry("extract")
    /\ UNCHANGED <<regions_dict, regional_means, files, dataDirExists, opened, locals, processed_data, figures,
                   vizStep, mainResult, traceback, exitStatus, arg, ret>>

\* the dictionaries run_visualization.main hands to calculate_regional_means
data_dict(name, data) ==
    CASE name = "pm25_scenario_dict" ->
            [title \in {"2000 Baseline", "2050 RCP 4.5", "2050 RCP 8.5",
                        "2100 RCP 4.5", "2100 RCP 8.5"} |->
                CASE title = "2000 Baseline" -> data["wildfire_pm25_2000"]
                  [] title = "2050 RCP 4.5"  -> data["wildfire_pm25_2050_45"]
                  [] title = "2050 RCP 8.5"  -> data["wildfire_pm25_2050_85"]
                  [] title = "2100 RCP 4.5"  -> data["wildfire_pm25_2100_45"]
                  [] title = "2100 RCP 8.5"  -> data["wildfire_pm25_2100_85"]]
      [] name = "solar_scenario_dict" ->
            [title \in {"2000 Baseline", "2050 RCP 4.5", "2050 RCP 8.5",
                        "2100 RCP 4.5", "2100 RCP 8.5"} |->
                CASE title = "2000 Baseline" -> data["solar_change_2000"]
                  [] title = "2050 RCP 4.5"  -> data["solar_change_2050_45"]
                  [] title = "2050 RCP 8.5"  -> data["solar_change_2050_85"]
                  [] title = "2100 RCP 4.5"  -> data["solar_change_2100_45"]
                  [] title = "2100 RCP 8.5"  -> data["solar_change_2100_85"]]
      [] name = "solar_changes_dict" ->
            [title \in {"2000 to 2050 (RCP 4.5)", "2000 to 2050 (RCP 8.5)",
                        "2050 to 2100 (RCP 4.5)", "2050 to 2100 (RCP 8.5)"} |->
                CASE title = "2000 to 2050 (RCP 4.5)" -> data["solar_diff_2000_to_2050_45"]
                  [] title = "2000 to 2050 (RCP 8.5)" -> data["solar_diff_2000_to_2050_85"]
                  [] title = "2050 to 2100 (RCP 4.5)" -> data["solar_diff_2050_to_2100_45"]
                  [] title = "2050 to 2100 (RCP 8.5)" -> data["solar_diff_2050_to_2100_85"]]

\* whether a visualization call may raise (rendering or savefig failing)
CallOutcomes(call) == IF call.file = "" THEN {TRUE} ELSE BOOLEAN

\* mutant: a call that raises still leaves its file behind
savefig_before_raise(call, ok, figs) ==
    IF call.file = "" THEN figs ELSE figs \cup {call.file}

\* the figure files on disk after a call: plt.savefig is the last statement
\* of a figure function that can raise, so a call that raises writes nothing
savefig(call, ok, figs) ==
    IF ok /\ call.file # "" THEN figs \cup {call.file} ELSE figs

\* the next map, chart or regional-mean call of run_visualization.main
VizCall ==
    /\ pc = "viz"
    /\ vizStep < Len(VizCalls)
    /\ LET call == VizCalls[vizStep + 1]
       IN  \E ok \in CallOutcomes(call) :
            /\ figures' = savefig(call, ok, figures)
            /\ regional_means' =
                   IF call.fn = "calculate_regional_means"
                   THEN (call.result :>
                            calculate_regional_means(data_dict(call.data, processed_data)))
                        @@ regional_means
                   ELSE regional_means
            /\ regions_dict' =
                   IF call.fn = "calculate_regional_means"
                   THEN regions_after_call(regions_dict,
                                           data_dict(call.data, processed_data))
                   ELSE regions_dict
            /\ IF ok
               THEN vizStep' = vizStep + 1 /\ UNCHANGED <<pc, raised>>
               ELSE RaiseInTry(call.fn) /\ UNCHANGED vizStep
    /\ UNCHANGED <<files, dataDirExists, opened, locals, processed_data,
                   mainResult, traceback, exitStatus, arg, ret>>

\* the value main returns to "exit_code = main(output_dir)"
success_return_value(step) == 0

\* mutant: the handler reports success
except_return_zero(where) == 0

except_return_value(where) == 1

\* end of the try block: "return 0"
Complete ==
    /\ pc = "viz"
    /\ vizStep = Len(VizCalls)
    /\ mainResult' = [state |-> "returned", value |-> success_return_value(vizStep)]
    /\ pc' = "sys_exit"
    /\ UNCHANGED <<regions_dict, regional_means, files, dataDirExists, opened, locals, processed_data, figures,
                   vizStep, raised, traceback, exitStatus, arg, ret>>

\* "except Exception as e": message, traceback.print_exc(), "return 1"
HandleException ==
    /\ pc = "except"
    /\ traceback' = TRUE
    /\ mainResult' = [state |-> "returned", value |-> except_return_value(raised)]
    /\ pc' = "sys_exit"
    /\ UNCHANGED <<regions_dict, regional_means, files, dataDirExists, opened, locals, processed_data, figures,
                   vizStep, raised, exitStatus, arg, ret>>

\* sys.exit(exit_code)
SysExit ==
    /\ pc = "sys_exit"
    /\ exitStatus' = [exited |-> TRUE, code |-> mainResult.value]
    /\ pc' = "exited"
    /\ UNCHANGED <<regions_dict, regional_means, files, dataDirExists, opened, locals, processed_data, figures,
                   vizStep, raised, mainResult, traceback, arg, ret>>

\* the exit status of a Python process ended by an exception nobody caught
uncaught_exit_code(where) == 1

\* an exception that reached the top of the script: the interpreter prints
\* the traceback and the process ends
UncaughtException ==
    /\ pc = "uncaught"
    /\ traceback' = TRUE
    /\ exitStatus' = [exited |-> TRUE, code |-> uncaught_exit_code(raised)]
    /\ pc' = "exited"
    /\ UNCHANGED <<regions_dict, regional_means, files, dataDirExists, opened, locals, processed_data, figures,
                   vizStep, raised, mainResult, arg, ret>>

Next ==
    \/ ImportModules
    \/ SetOutputDirectory
    \/ \E k \in KeyIds : LoadScenario(k)
    \/ ComputeChanges
    \/ ComputeSolar
    \/ ComputeSolarDiffs
    \/ ReturnMapping
    \/ ExtractDatasets
    \/ VizCall
    \/ Complete
    \/ HandleException
    \/ SysExit
    \/ UncaughtException

Spec == Init /\ [][Next]_vars

(***************************************************************************)
(* Claims                                                                  *)
(***************************************************************************)

\* the uncapped change -0.48 * p / 17.71 * 100 written as one fraction
ExactChange(p) == IF IsNaN(p) THEN NaN ELSE Rat(-4800 * p[1], 1771 * p[2])

\* C1: calculate_solar_potential_change is the elementwise clamp of
\* u = -0.48 * pm25 / 17.71 * 100 at a floor of -100 with no upper bound: on
\* the same grid, each output cell is exactly -100 when u < -100 and exactly
\* u when u >= -100 (u = -100 included), and is <= 0 whenever pm25 >= 0.
C1_ClampAtFloor ==
    pc = "ret_solar" =>
        /\ ret.lat = arg.lat
        /\ ret.lon = arg.lon
        /\ \A c \in Cells(arg) :
            LET p == arg.v[c[1]][c[2]]
                u == ExactChange(p)
                o == ret.v[c[1]][c[2]]
            IN  /\ RLt(u, Rat(-100, 1)) => o = Rat(-100, 1)
                /\ RLe(Rat(-100, 1), u) => o = u
                /\ RLe(Rat(0, 1), p) => RLe(o, Rat(0, 1))

\* C1 witness: one call returns a cell clamped from below -100 next to a cell
\* whose uncapped change is exactly -100
C1_Witness ==
    /\ pc = "ret_solar"
    /\ RLt(ExactChange(arg.v[1][1]), Rat(-100, 1))
    /\ ret.v[1][1] = Rat(-100, 1)
    /\ ExactChange(arg.v[1][2]) = Rat(-100, 1)
    /\ ret.v[1][2] = Rat(-100, 1)

IsStrictlyAscending(s) == \A k \in 1 .. Len(s) - 1 : s[k] < s[k + 1]

\* C3: fix_lon returns a strictly ascending longitude sequence whose value
\* set is { v if v <= 180 else v - 360 : v in the input longitudes }; an
\* input within [0, 360) gives an output within (-180, 180].
C3_LonAscendingRelabelled ==
    pc = "ret_fix_lon" =>
        /\ IsStrictlyAscending(ret.lon)
        /\ Range(ret.lon) =
               {IF v <= 180 THEN v ELSE v - 360 : v \in Range(arg.lon)}
        /\ (\A v \in Range(arg.lon) : 0 <= v /\ v < 360)
               => \A w \in Range(ret.lon) : -180 < w /\ w <= 180

\* C3 witness: an input in [0, 360) with a longitude above 180 placed before
\* a smaller one has been normalised, so cells had to be reordered
C3_Witness ==
    /\ pc = "ret_fix_lon"
    /\ Len(arg.lon) = 3
    /\ \A v \in Range(arg.lon) : 0 <= v /\ v < 360
    /\ arg.lon[1] < arg.lon[2] /\ arg.lon[2] < arg.lon[3]
    /\ arg.lon[3] > 180
    /\ ret.lon # arg.lon

BagOfCells(da) ==
    LET vals == {da.v[c[1]][c[2]] : c \in Cells(da)}
    IN  [x \in vals |-> Cardinality({c \in Cells(da) : da.v[c[1]][c[2]] = x})]

\* C4: fix_lon relabels and reorders, it does not resample: the output cell
\* at (lat, v if v <= 180 else v - 360) holds the value the input held at
\* (lat, v); latitude, the number of cells and the multiset of cell values
\* are unchanged.
C4_LonRelabelReorder ==
    pc = "ret_fix_lon" =>
        /\ ret.lat = arg.lat
        /\ Len(ret.lon) = Len(arg.lon)
        /\ Len(ret.v) = Len(arg.v)
        /\ \A i \in Rows(ret) : Len(ret.v[i]) = Len(arg.lon)
        /\ BagOfCells(ret) = BagOfCells(arg)
        /\ \A i \in Rows(arg) : \A j \in Cols(arg) :
               LET v == arg.lon[j]
                   w == IF v <= 180 THEN v ELSE v - 360
               IN  /\ w \in Range(ret.lon)
                   /\ At(ret, arg.lat[i], w) = arg.v[i][j]

\* C4 witness: a two-row grid whose columns were permuted by the call
C4_Witness ==
    /\ pc = "ret_fix_lon"
    /\ Len(arg.lat) = 2
    /\ Len(arg.lon) = 3
    /\ ret.v[2][1] = arg.v[2][3]
    /\ ret.v[1][3] = arg.v[1][2]

\* a field by name: a local of wpp.main, or an entry of the returned mapping
Bound(n) == n \in DOMAIN locals \/ n \in DOMAIN processed_data

Field(n) == IF n \in DOMAIN locals THEN locals[n] ELSE processed_data[n]

\* C2 (as stated): every cell of every SolarPotentialField (solar_change_K,
\* five keys) lies in [-100, 0], whatever the baseline and no-fire inputs,
\* negative wildfire cells included.  Cells that are not numbers are left out.
C2_SolarWithinMinus100And0 ==
    \A k \in KeyIds :
        Bound(solar_name(ScenarioKeys[k])) =>
            LET s == Field(solar_name(ScenarioKeys[k]))
            IN  \A c \in Cells(s) :
                    LET o == s.v[c[1]][c[2]]
                    IN  IsNaN(o) \/ (RLe(Rat(-100, 1), o) /\ RLe(o, Rat(0, 1)))

\* C2 (amended): no cell of a SolarPotentialField is below -100; a cell is
\* <= 0 where the wildfire cell is >= 0 and is > 0 where the wildfire cell
\* is negative (the clamp has no upper bound).
C2_SolarFloorOnly ==
    \A k \in KeyIds :
        Bound(solar_name(ScenarioKeys[k])) /\ Bound(wildfire_name(ScenarioKeys[k])) =>
            LET s == Field(solar_name(ScenarioKeys[k]))
                w == Field(wildfire_name(ScenarioKeys[k]))
            IN  /\ s.lat = w.lat
                /\ s.lon = w.lon
                /\ \A c \in Cells(s) :
                    LET o == s.v[c[1]][c[2]]
                        p == w.v[c[1]][c[2]]
                    IN  /\ ~RLt(o, Rat(-100, 1))
                        /\ IsNaN(o) <=> IsNaN(p)
                        /\ RLe(Rat(0, 1), p) => RLe(o, Rat(0, 1))
                        /\ RLt(p, Rat(0, 1)) => RLt(Rat(0, 1), o)

\* C2 witness: the returned solar_change_2050_85 has a cell at the floor and
\* a positive cell, the latter from a negative wildfire cell
C2_Witness ==
    /\ "solar_change_2050_85" \in DOMAIN processed_data
    /\ \E c \in Cells(processed_data["solar_change_2050_85"]) :
           processed_data["solar_change_2050_85"].v[c[1]][c[2]] = Rat(-100, 1)
    /\ \E c \in Cells(processed_data["solar_change_2050_85"]) :
           /\ RLt(Rat(0, 1), processed_data["solar_change_2050_85"].v[c[1]][c[2]])
           /\ RLt(processed_data["wildfire_pm25_2050_85"].v[c[1]][c[2]], Rat(0, 1))

\* the field the loader makes of one file: time mean, then fix_lon
Loaded(path) == fix_lon(time_average_if_needed(files[path]))

\* C5: in the returned mapping, for each of the five keys K, wildfire_pm25_K
\* is baseline_pm25_K minus nofire_pm25_K in every cell of the grid the two
\* share, the operands being the time-averaged, longitude-normalised fields
\* of the two files of key K.
C5_WildfireIsBaselineMinusNoFire ==
    DOMAIN processed_data # {} =>
        \A k \in KeyIds :
            LET key == ScenarioKeys[k]
                w   == processed_data[wildfire_name(key)]
                b   == processed_data[baseline_name(key)]
                n   == processed_data[nofire_name(key)]
            IN  /\ b = Loaded(baseline_path(key))
                /\ n = Loaded(nofire_path(key))
                /\ Range(w.lat) = Range(b.lat) \cap Range(n.lat)
                /\ Range(w.lon) = Range(b.lon) \cap Range(n.lon)
                /\ \A i \in Rows(w) : \A j \in Cols(w) :
                       w.v[i][j] = RSub(At(b, w.lat[i], w.lon[j]),
                                        At(n, w.lat[i], w.lon[j]))

\* C5 witness: the mapping is returned from files with a time axis, and
\* wildfire_pm25_2100_85 has a negative and a positive cell
C5_Witness ==
    /\ DOMAIN processed_data # {}
    /\ files[baseline_path("2100_85")].has_time
    /\ Len(files[nofire_path("2100_85")].frames) = 2
    /\ \E c \in Cells(processed_data["wildfire_pm25_2100_85"]) :
           RLt(processed_data["wildfire_pm25_2100_85"].v[c[1]][c[2]], Rat(0, 1))
    /\ \E c \in Cells(processed_data["wildfire_pm25_2100_85"]) :
           RLt(Rat(40, 1), processed_data["wildfire_pm25_2100_85"].v[c[1]][c[2]])

\* C6: when the baseline and the no-fire field of a scenario differ in shape
\* or in coordinate values after normalisation, the subtraction ends the
\* run with an error and no wildfire field of that scenario ever exists.
C6_MisalignedOperandsRejected ==
    \A k \in KeyIds :
        LET key == ScenarioKeys[k]
        IN  Bound(wildfire_name(key)) =>
                /\ Field(baseline_name(key)).lat = Field(nofire_name(key)).lat
                /\ Field(baseline_name(key)).lon = Field(nofire_name(key)).lon

EmptyTimeAxis(path) == files[path].has_time /\ Len(files[path].frames) = 0

\* C7: each loaded field is the 2-D time mean of its own dataset, and a
\* dataset whose time dimension is present but empty makes the load fail:
\* no field is ever bound from such a dataset.
C7_EmptyTimeAxisFails ==
    \A k \in KeyIds :
        LET key == ScenarioKeys[k]
        IN  Bound(baseline_name(key)) =>
                /\ Field(baseline_name(key)) = Loaded(baseline_path(key))
                /\ Field(nofire_name(key)) = Loaded(nofire_path(key))
                /\ ~EmptyTimeAxis(baseline_path(key))
                /\ ~EmptyTimeAxis(nofire_path(key))

\* a scenario one of whose files is missing or lacks the variable 'pm25'
BadScenario(k) ==
    \/ ~files[baseline_path(ScenarioKeys[k])].exists
    \/ ~files[nofire_path(ScenarioKeys[k])].exists
    \/ ~files[baseline_path(ScenarioKeys[k])].has_pm25
    \/ ~files[nofire_path(ScenarioKeys[k])].has_pm25

PathsAfter(k) ==
    {baseline_path(ScenarioKeys[j]) : j \in (k + 1) .. Len(ScenarioKeys)}
        \cup {nofire_path(ScenarioKeys[j]) : j \in (k + 1) .. Len(ScenarioKeys)}

\* C8: fail-fast, no partial-scenario mode: if a file or the variable 'pm25'
\* is missing for scenario k, the run never gets past that load: no file of a
\* later scenario is opened, no file is opened twice, none of the scenario's
\* fields is bound, no mapping is returned, and the run ends with status 1.
C8_FailFast ==
    \A k \in KeyIds :
        BadScenario(k) =>
            /\ DOMAIN processed_data = {}
            /\ Range(opened) \cap PathsAfter(k) = {}
            /\ \A i, j \in 1 .. Len(opened) : i # j => opened[i] # opened[j]
            /\ ~Bound(wildfire_name(ScenarioKeys[k]))
            /\ ~Bound(baseline_name(ScenarioKeys[k]))
            /\ ~Bound(nofire_name(ScenarioKeys[k]))
            /\ pc \notin {LoadPc(j) : j \in (k + 1) .. Len(ScenarioKeys)}
                           \cup {"changes", "solar", "solar_diff", "return",
                                 "extract", "viz"}
            /\ figures = {}
            /\ exitStatus.exited => exitStatus.code = 1

\* C8 witness: 'pm25' is missing from the no-fire file of 2050 RCP8.5; the
\* run ended at that load after opening the six files of the first three
\* scenarios
C8_Witness ==
    /\ pc = "exited"
    /\ files[nofire_path("2050_85")].exists
    /\ ~files[nofire_path("2050_85")].has_pm25
    /\ raised = "load_2050_85"
    /\ Len(opened) = 6
    /\ exitStatus.code = 1

\* C9: the process exits with status 0 when the whole run succeeded and with
\* status 1 when an exception was raised anywhere (loading the processing
\* module and setting up the output directory included); in the latter case
\* a traceback has been printed.
C9_ExitCodes ==
    /\ pc \in {"except", "uncaught"} => raised # "none"
    /\ exitStatus.exited =>
        /\ raised = "none" =>
               /\ exitStatus.code = 0
               /\ vizStep = Len(VizCalls)
               /\ DOMAIN processed_data = ReturnedKeys
        /\ raised # "none" => exitStatus.code = 1 /\ traceback

\* C9 witness: a run whose exception was raised while setting up the output
\* directory, before the try block, has exited with status 1 and a traceback
C9_Witness ==
    /\ exitStatus.exited
    /\ raised = "set_output_directory"
    /\ mainResult.state = "raised"
    /\ exitStatus.code = 1
    /\ traceback

\* C10: no exception raised by a step of main(out_dir) (output-directory
\* setup, processing, maps, regional aggregation, charts) propagates out of
\* main; each is turned into the return value 1.
C10_MainCatchesAll ==
    /\ mainResult.state # "raised"
    /\ (raised \notin {"none", "import"} /\ pc \in {"sys_exit", "exited"})
           => mainResult = [state |-> "returned", value |-> 1]

CompletedFiles == {VizCalls[i].file : i \in 1 .. vizStep} \ {""}

IsDifference(d, later, earlier) ==
    /\ Range(d.lat) = Range(later.lat) \cap Range(earlier.lat)
    /\ Range(d.lon) = Range(later.lon) \cap Range(earlier.lon)
    /\ \A i \in Rows(d) : \A j \in Cols(d) :
           d.v[i][j] = RSub(At(later, d.lat[i], d.lon[j]),
                            At(earlier, d.lat[i], d.lon[j]))

\* the pairs of the claim: 2000->2050, 2050->2100 and 2000->2100 under each
\* pathway, as <<interval and pathway, later scenario, earlier scenario>>
PathwayPairs ==
    { <<"2000_to_2050_45", "2050_45", "2000">>,
      <<"2050_to_2100_45", "2100_45", "2050_45">>,
      <<"2000_to_2100_45", "2100_45", "2000">>,
      <<"2000_to_2050_85", "2050_85", "2000">>,
      <<"2050_to_2100_85", "2100_85", "2050_85">>,
      <<"2000_to_2100_85", "2100_85", "2000">> }

PM25DifferenceKeys ==
    {"change_2000_to_2050_45", "change_2050_to_2100_45", "change_2000_to_2100_45",
     "change_2000_to_2050_85", "change_2050_to_2100_85", "change_2000_to_2100_85"}

SolarDifferenceKeys ==
    {"solar_diff_2000_to_2050_45", "solar_diff_2050_to_2100_45",
     "solar_diff_2000_to_2100_45", "solar_diff_2000_to_2050_85",
     "solar_diff_2050_to_2100_85", "solar_diff_2000_to_2100_85"}

\* the keys of the returned mapping that are among the given names
KeysNamed(names) == {n \in DOMAIN processed_data : n \in names}

\* C12: the returned mapping holds exactly six PM2.5 DifferenceFields and
\* exactly six solar DifferenceFields; each is (later scenario minus earlier
\* scenario) of the wildfire, respectively solar, fields of one of the pairs
\* 2000->2050, 2050->2100, 2000->2100 under RCP4.5 or under RCP8.5, and no
\* difference subtracts fields of two pathways.
C12_SixDifferencesPerQuantity ==
    DOMAIN processed_data # {} =>
        LET base == {baseline_name(ScenarioKeys[k]) : k \in KeyIds}
                        \cup {nofire_name(ScenarioKeys[k]) : k \in KeyIds}
                        \cup WildfireNames \cup SolarNames
            diff == DOMAIN processed_data \ base
        IN  /\ diff = PM25DifferenceKeys \cup SolarDifferenceKeys
            /\ Cardinality(KeysNamed(PM25DifferenceKeys)) = 6
            /\ Cardinality(KeysNamed(SolarDifferenceKeys)) = 6
            /\ \A pr \in PathwayPairs :
                   /\ IsDifference(processed_data["change_" \o pr[1]],
                                   processed_data["wildfire_pm25_" \o pr[2]],
                                   processed_data["wildfire_pm25_" \o pr[3]])
                   /\ IsDifference(processed_data["solar_diff_" \o pr[1]],
                                   processed_data["solar_change_" \o pr[2]],
                                   processed_data["solar_change_" \o pr[3]])

\* C12 witness: the mapping is returned and the RCP4.5 and RCP8.5 fields of
\* 2050 differ, so that a difference mixing the pathways would show
C12_Witness ==
    /\ DOMAIN processed_data # {}
    /\ processed_data["wildfire_pm25_2050_45"] # processed_data["wildfire_pm25_2050_85"]
    /\ processed_data["solar_change_2050_45"] # processed_data["solar_change_2050_85"]
    /\ processed_data["change_2050_to_2100_45"] # processed_data["change_2050_to_2100_85"]

\* C13 as stated: the mapping returned by the processing main has exactly
\* 31 distinct keys.
C13_ThirtyOneKeys ==
    DOMAIN processed_data # {} => Cardinality(DOMAIN processed_data) = 31

ScenarioFieldKeys ==
    {"baseline_pm25_2000", "baseline_pm25_2050_45", "baseline_pm25_2050_85",
     "baseline_pm25_2100_45", "baseline_pm25_2100_85",
     "nofire_pm25_2000", "nofire_pm25_2050_45", "nofire_pm25_2050_85",
     "nofire_pm25_2100_45", "nofire_pm25_2100_85",
     "wildfire_pm25_2000", "wildfire_pm25_2050_45", "wildfire_pm25_2050_85",
     "wildfire_pm25_2100_45", "wildfire_pm25_2100_85",
     "solar_change_2000", "solar_change_2050_45", "solar_change_2050_85",
     "solar_change_2100_45", "solar_change_2100_85"}

\* C13 (amended): the mapping returned by the processing main has exactly 32
\* distinct keys (five baseline, five no-fire, five wildfire, five solar
\* fields, six PM2.5 and six solar differences), and the return statement
\* binds each key to the field main holds under that name.
C13_ThirtyTwoKeys ==
    [][(pc = "return" /\ pc' = "extract") =>
          /\ Cardinality(DOMAIN processed_data') = 32
          /\ DOMAIN processed_data' =
                 ScenarioFieldKeys \cup PM25DifferenceKeys \cup SolarDifferenceKeys
          /\ \A n \in DOMAIN processed_data' : processed_data'[n] = locals[n]]_vars

C13_Witness ==
    /\ pc = "extract"
    /\ Cardinality(DOMAIN processed_data) = 32
    /\ "solar_diff_2000_to_2100_85" \in DOMAIN processed_data

\* whether both files of scenario k were opened
PairOpened(k) ==
    {baseline_path(ScenarioKeys[k]), nofire_path(ScenarioKeys[k])} \subseteq Range(opened)

AnyBound(names) == \E n \in names : Bound(n)

AllBound(names) == \A n \in names : Bound(n)

\* the order of the four computing phases: no field of a later phase exists
\* before every field of each earlier phase does
ComputePhasesOrdered ==
    /\ AnyBound(PM25DifferenceKeys) => AllBound(WildfireNames)
    /\ AnyBound(SolarNames) => AllBound(PM25DifferenceKeys)
    /\ AnyBound(SolarDifferenceKeys) => AllBound(SolarNames)

\* C14 as stated: all five scenario pairs are loaded, then the five
\* WildfireFields are computed, then the six PM2.5 DifferenceFields, then the
\* five SolarPotentialFields, then the six solar DifferenceFields; no step of
\* a later phase happens before every step of each earlier phase is done.
C14_LoadAllThenCompute ==
    /\ AnyBound(WildfireNames) => \A k \in KeyIds : PairOpened(k)
    /\ ComputePhasesOrdered

\* C14 (amended): the scenarios are handled in the order 2000, 2050_45,
\* 2050_85, 2100_45, 2100_85, each pair being loaded and its WildfireField
\* computed before the next pair is opened; only when all five WildfireFields
\* exist are the six PM2.5 DifferenceFields computed, then the five
\* SolarPotentialFields, then the six solar DifferenceFields.
C14_LoadComputeInterleaved ==
    /\ \A k \in KeyIds :
           /\ Bound(wildfire_name(ScenarioKeys[k])) =>
                  \A j \in 1 .. k :
                      PairOpened(j) /\ Bound(wildfire_name(ScenarioKeys[j]))
           /\ baseline_path(ScenarioKeys[k]) \in Range(opened) =>
                  \A j \in 1 .. (k - 1) : Bound(wildfire_name(ScenarioKeys[j]))
    /\ ComputePhasesOrdered

\* C14 witness: the first WildfireField exists while the files of 2050 are
\* still unopened
C14_Witness ==
    /\ pc = "load_2050_45"
    /\ Bound("wildfire_pm25_2000")
    /\ Len(opened) = 2

\* the cells of a field whose labels lie within the bounds of a region
WindowCells(data, b) ==
    {c \in Cells(data) :
        /\ b.lat_min <= data.lat[c[1]] /\ data.lat[c[1]] <= b.lat_max
        /\ b.lon_min <= data.lon[c[2]] /\ data.lon[c[2]] <= b.lon_max}

IsConstant(data, c) == \A x \in Cells(data) : data.v[x[1]][x[2]] = c

\* C15: for every Region and every spatially constant field with value c,
\* calculate_regional_means returns exactly c as that region's weighted
\* mean, on any grid, a one-row grid and a grid with descending latitudes
\* included.  (Taken over the regions that hold at least one cell of the
\* grid, where the mean of a constant field is defined.)
C15_ConstantFieldMean ==
    pc = "ret_regional_means" =>
        \A name \in DOMAIN arg : \A r \in RegionNames :
            \A c \in {Rat(-28800, 1771), Rat(0, 1), Rat(6, 1)} :
                (IsConstant(arg[name], c) /\ WindowCells(arg[name], RegionNamed(r)) # {})
                    => ret[r][name] = c

RECURSIVE SumOver(_, _)
SumOver(f, S) ==
    IF S = {} THEN Rat(0, 1)
    ELSE LET x == CHOOSE y \in S : TRUE
         IN  RAdd(f[x], SumOver(f, S \ {x}))

\* sum(value * cos(lat)) / sum(cos(lat)) over a set of cells of a field
CosWeightedMean(data, S) ==
    RDiv(SumOver([x \in S |-> RMul(data.v[x[1]][x[2]], cos_deg(data.lat[x[1]]))], S),
         SumOver([x \in S |-> cos_deg(data.lat[x[1]])], S))

\* C16: for each (Region, Grid) pair, calculate_regional_means selects
\* exactly the cells with lat_min <= lat <= lat_max and lon_min <= lon <=
\* lon_max and returns sum(value * cos(lat)) / sum(cos(lat)) over exactly
\* those cells, every selected cell contributing its value and its weight.
C16_InclusiveWindowMean ==
    pc = "ret_regional_means" =>
        \A name \in DOMAIN arg : \A r \in RegionNames :
            ret[r][name] =
                CosWeightedMean(arg[name], WindowCells(arg[name], RegionNamed(r)))

\* C17: when every baseline grid is the constant 10 and every no-fire grid
\* the constant 4 over a uniform tiny grid, every wildfire field is the
\* constant 6, every solar potential field is the constant
\* -0.48*6/17.71*100, and the regional mean of every solar potential field
\* is that same value for each of the six regions.
C17_EndToEndConstant ==
    (files \in ConstantEnvironments /\ "solar_regional_means" \in DOMAIN regional_means) =>
        /\ \A n \in WildfireNames : IsConstant(processed_data[n], Rat(6, 1))
        /\ \A n \in SolarNames : IsConstant(processed_data[n], Rat(-28800, 1771))
        /\ \A r \in RegionNames :
               \A title \in DOMAIN regional_means["solar_regional_means"][r] :
                   regional_means["solar_regional_means"][r][title] = Rat(-28800, 1771)

SameShape(a, b) == a.lat = b.lat /\ a.lon = b.lon

\* whether d + earlier gives back later in every cell
RoundTrip(d, later, earlier) ==
    \A c \in Cells(later) :
        RAdd(d.v[c[1]][c[2]], earlier.v[c[1]][c[2]]) = later.v[c[1]][c[2]]

\* C18: for each of the twelve DifferenceFields of the returned mapping whose
\* operands A (later) and B (earlier) have the same shape, (A - B) + B equals
\* A in every cell.
C18_DifferenceRoundTrip ==
    DOMAIN processed_data # {} =>
        \A pr \in PathwayPairs :
            /\ SameShape(processed_data["wildfire_pm25_" \o pr[2]],
                         processed_data["wildfire_pm25_" \o pr[3]])
                   => RoundTrip(processed_data["change_" \o pr[1]],
                                processed_data["wildfire_pm25_" \o pr[2]],
                                processed_data["wildfire_pm25_" \o pr[3]])
            /\ SameShape(processed_data["solar_change_" \o pr[2]],
                         processed_data["solar_change_" \o pr[3]])
                   => RoundTrip(processed_data["solar_diff_" \o pr[1]],
                                processed_data["solar_change_" \o pr[2]],
                                processed_data["solar_change_" \o pr[3]])

\* the negative of a cell value; of a value that is not a number, itself
Negated(x) == RSub(Rat(0, 1), x)

\* C19: for all fields a and b on one grid, attribution(a, b) and
\* attribution(b, a) lie on that same grid and attribution(a, b) is the
\* negative of attribution(b, a) in every cell.
C19_AttributionAntiSymmetric ==
    pc = "ret_attribution" =>
        /\ ret.ab.lat = arg.a.lat /\ ret.ab.lon = arg.a.lon
        /\ ret.ba.lat = arg.a.lat /\ ret.ba.lon = arg.a.lon
        /\ \A c \in Cells(arg.a) :
               ret.ab.v[c[1]][c[2]] = Negated(ret.ba.v[c[1]][c[2]])

\* C19 witness: a cell where attribution(a, b) is 6 and attribution(b, a) -6
C19_Witness ==
    /\ pc = "ret_attribution"
    /\ \E c \in Cells(arg.a) :
           /\ ret.ab.v[c[1]][c[2]] = Rat(6, 1)
           /\ ret.ba.v[c[1]][c[2]] = Rat(-6, 1)

\* the ten inputs of the claim, as <<standard file, no-fire counterpart>>
NamedInputPairs ==
    { <<"CESM_09x125_PM25_2000_Baseline.nc", "CESM_09x125_PM25_2000_BaseLine_NoFire.nc">>,
      <<"CESM_09x125_PM25_2050_RCP45.nc", "CESM_09x125_PM25_2050_RCP45_NoFire.nc">>,
      <<"CESM_09x125_PM25_2050_RCP85.nc", "CESM_09x125_PM25_2050_RCP85_NoFire.nc">>,
      <<"CESM_09x125_PM25_2100_RCP45.nc", "CESM_09x125_PM25_2100_RCP45_NoFire.nc">>,
      <<"CESM_09x125_PM25_2100_RCP85.nc", "CESM_09x125_PM25_2100_RCP85_NoFire.nc">> }

\* C20: a run that gets through processing has opened exactly the ten named
\* inputs; every file any run opens is one of them; and the files are opened
\* in loads of two, a standard file followed by the no-fire file of the same
\* year and pathway.
C20_TenNamedInputs ==
    /\ Range(opened) \subseteq UNION {{pr[1], pr[2]} : pr \in NamedInputPairs}
    /\ \A i \in 1 .. Len(opened) :
           i % 2 = 1 =>
               \E pr \in NamedInputPairs :
                   /\ opened[i] = pr[1]
                   /\ i + 1 <= Len(opened) => opened[i + 1] = pr[2]
    /\ DOMAIN processed_data # {} =>
           /\ Range(opened) = UNION {{pr[1], pr[2]} : pr \in NamedInputPairs}
           /\ Cardinality(Range(opened)) = 10

\* C20 witness: processing is through with time-dependent inputs
C20_Witness ==
    /\ DOMAIN processed_data # {}
    /\ Len(opened) = 10
    /\ files["CESM_09x125_PM25_2100_RCP85_NoFire.nc"].has_time

\* how often a path was handed to xr.open_dataset
TimesOpened(path) == Cardinality({i \in 1 .. Len(opened) : opened[i] = path})

\* C21: no input file is opened twice in a run; once the five loads are
\* through, each of the ten input files has been opened exactly once, and it
\* stays so through the differences, the solar fields, the maps and the
\* regional means up to the end of the process.
C21_EachFileOpenedOnce ==
    /\ \A f \in FileNames : TimesOpened(f) <= 1
    /\ (AllBound(WildfireNames) \/ vizStep > 0 \/ exitStatus = [exited |-> TRUE, code |-> 0]) =>
           /\ Len(opened) = 10
           /\ \A f \in UNION {{pr[1], pr[2]} : pr \in NamedInputPairs} : TimesOpened(f) = 1

\* C21 witness: the run ended with status 0 after the regional means and
\* all figures were made
C21_Witness ==
    /\ exitStatus = [exited |-> TRUE, code |-> 0]
    /\ vizStep = Len(VizCalls)
    /\ "solar_changes_regional_means" \in DOMAIN regional_means
    /\ Len(opened) = 10

\* the table of a mapping, from the six regions as defined at import
TableOf(mapping) ==
    [r \in RegionNames |->
        [n \in DOMAIN mapping |-> weighted_mean(mapping[n], RegionNamed(r))]]

\* C22: every call of calculate_regional_means, first or later, leaves the
\* six-entry regions mapping and its input grids unchanged and returns a
\* table with exactly one scalar for every (region, dataset name) pair of
\* its input, 6 times the number of datasets, which is the table of that
\* input alone whatever was computed before.
C22_RegionsImmutableTableFresh ==
    [][(pc = "call_regional_means" /\ pc' = "ret_regional_means") =>
          /\ regions_dict' = regions /\ Len(regions_dict') = 6
          /\ arg' = arg
          /\ DOMAIN ret' = RegionNames
          /\ \A r \in RegionNames : DOMAIN ret'[r] = DOMAIN arg
          /\ Cardinality({<<r, n>> : r \in DOMAIN ret', n \in DOMAIN arg})
                 = 6 * Cardinality(DOMAIN arg)
          /\ ret' = TableOf(arg)]_vars

\* C22 witness: a later call, on three datasets, made while the caller holds
\* the table of an earlier call on fewer datasets
C22_Witness ==
    /\ pc = "ret_regional_means"
    /\ Cardinality(DOMAIN arg) = 3
    /\ Cardinality(DOMAIN ret["Europe"]) = 3
    /\ regions_dict = regions

\* whether a field has a cell at the labels (la, lo)
HasCell(da, la, lo) == la \in Range(da.lat) /\ lo \in Range(da.lon)

\* whether whole = first + second in every cell of whole
Telescopes(whole, first, second) ==
    \A i \in Rows(whole) : \A j \in Cols(whole) :
        LET la == whole.lat[i]
            lo == whole.lon[j]
        IN  /\ HasCell(first, la, lo)
            /\ HasCell(second, la, lo)
            /\ whole.v[i][j] = RAdd(At(first, la, lo), At(second, la, lo))

\* C23: in the returned mapping, for each pathway p in {45, 85} and every
\* cell, change_2000_to_2100_p = change_2000_to_2050_p + change_2050_to_2100_p
\* and solar_diff_2000_to_2100_p = solar_diff_2000_to_2050_p +
\* solar_diff_2050_to_2100_p.
C23_DifferencesTelescope ==
    DOMAIN processed_data # {} =>
        \A p \in {"45", "85"} :
            /\ Telescopes(processed_data["change_2000_to_2100_" \o p],
                          processed_data["change_2000_to_2050_" \o p],
                          processed_data["change_2050_to_2100_" \o p])
            /\ Telescopes(processed_data["solar_diff_2000_to_2100_" \o p],
                          processed_data["solar_diff_2000_to_2050_" \o p],
                          processed_data["solar_diff_2050_to_2100_" \o p])

\* whether x lies between the least and the greatest cell value of a window
BetweenMinAndMax(window, x) ==
    \E lo \in Cells(window), hi \in Cells(window) :
        /\ \A c \in Cells(window) :
               /\ RLe(window.v[lo[1]][lo[2]], window.v[c[1]][c[2]])
               /\ RLe(window.v[c[1]][c[2]], window.v[hi[1]][hi[2]])
        /\ RLe(window.v[lo[1]][lo[2]], x)
        /\ RLe(x, window.v[hi[1]][hi[2]])

\* C24: whenever the window a region selects from a field holds at least
\* one cell, the regional weighted mean lies between the minimum and the
\* maximum cell value of that window; when the window holds no cell the
\* result is not a finite number.
C24_MeanWithinWindowRange ==
    pc = "ret_regional_means" =>
        \A name \in DOMAIN arg : \A r \in RegionNames :
            LET window == sel(arg[name], RegionNamed(r))
            IN  IF Cells(window) # {}
                THEN BetweenMinAndMax(window, ret[r][name])
                ELSE IsNaN(ret[r][name])

\* C25: for every grid whose longitudes lie in [0, 360), fix_lon applied to
\* fix_lon(g) returns the longitude sequence, the latitudes and the cell
\* values of fix_lon(g).
C25_FixLonIdempotent ==
    [][(/\ pc = "ret_fix_lon" /\ pc' = "ret_fix_lon_again"
        /\ \A j \in 1 .. Len(arg.lon) : 0 <= arg.lon[j] /\ arg.lon[j] < 360) =>
          /\ ret'.lon = ret.lon
          /\ ret'.lat = ret.lat
          /\ ret'.v = ret.v]_vars

\* C25 witness: fix_lon was applied twice to a grid of three meridians in
\* [0, 360) that the first pass had to relabel and to reorder
C25_Witness ==
    /\ pc = "ret_fix_lon_again"
    /\ Len(arg.lon) = 3
    /\ \A j \in 1 .. Len(arg.lon) : 0 <= arg.lon[j] /\ arg.lon[j] < 360
    /\ \E j \in 1 .. Len(arg.lon) : arg.lon[j] > 180
    /\ ret.lon # arg.lon
    /\ ret.v # arg.v

\* whether the solar value of a wildfire cell was clamped at -100
Clamped(w) == RLt(ExactChange(w), Rat(-100, 1))

\* C26: in the returned mapping, in every cell where neither operand's solar
\* value was clamped at -100, each of the six solar DifferenceFields equals
\* -0.48 * change / 17.71 * 100 of the PM2.5 DifferenceField of the same
\* pairing.
C26_SolarDiffLinearWhereUnclamped ==
    DOMAIN processed_data # {} =>
        \A pr \in PathwayPairs :
            LET sd    == processed_data["solar_diff_" \o pr[1]]
                ch    == processed_data["change_" \o pr[1]]
                later == processed_data["wildfire_pm25_" \o pr[2]]
                early == processed_data["wildfire_pm25_" \o pr[3]]
            IN  \A i \in Rows(sd) : \A j \in Cols(sd) :
                    LET la == sd.lat[i]
                        lo == sd.lon[j]
                    IN  (~Clamped(At(later, la, lo)) /\ ~Clamped(At(early, la, lo))) =>
                            /\ HasCell(ch, la, lo)
                            /\ sd.v[i][j] = ExactChange(At(ch, la, lo))

\* C26 witness: the mapping is returned; in one cell of the 2000 to 2100
\* RCP8.5 pairing neither operand was clamped and the change is not zero, and
\* in another the later operand was clamped and the solar difference is not
\* the linear response of the PM2.5 difference
C26_Witness ==
    /\ DOMAIN processed_data # {}
    /\ LET sd    == processed_data["solar_diff_2000_to_2100_85"]
           ch    == processed_data["change_2000_to_2100_85"]
           later == processed_data["wildfire_pm25_2100_85"]
           early == processed_data["wildfire_pm25_2000"]
       IN  /\ sd.lat = ch.lat /\ sd.lon = ch.lon
           /\ later.lat = sd.lat /\ later.lon = sd.lon
           /\ early.lat = sd.lat /\ early.lon = sd.lon
           /\ \E c \in Cells(sd) :
                  /\ ~Clamped(later.v[c[1]][c[2]]) /\ ~Clamped(early.v[c[1]][c[2]])
                  /\ RLt(Rat(0, 1), ch.v[c[1]][c[2]])
                  /\ sd.v[c[1]][c[2]] = ExactChange(ch.v[c[1]][c[2]])
           /\ \E c \in Cells(sd) :
                  /\ Clamped(later.v[c[1]][c[2]]) /\ ~Clamped(early.v[c[1]][c[2]])
                  /\ ~IsNaN(sd.v[c[1]][c[2]])
                  /\ sd.v[c[1]][c[2]] # ExactChange(ch.v[c[1]][c[2]])

====
